---- MODULE Spec2Model ----
(***************************************************************************)
(* Model of the FLO-2D driver (mdal/frmts/mdal_flo2d.cpp): geometry         *)
(* reconstruction, the text readers, the HDF5 reader and writer, and the    *)
(* load / persist entry points.                                             *)
(*                                                                          *)
(* Numbers.  A data value (double) is carried as an integer count of        *)
(* 2^-27, so 1.0 is Scale, and the 1e-8 band around FLO2D_NAN is |n| <= 1   *)
(* (1e-8 lies between 1 and 2 units).  A value that may be missing is a     *)
(* record [nan, num].  Cell coordinates are plain integers; vertex          *)
(* coordinates are carried in half units (twice the coordinate) so that     *)
(* cell_size / 2.0 stays integral; the ordering key scales with them.       *)
(***************************************************************************)
EXTENDS Integers, Sequences, FiniteSets, TLC

VARIABLES
  pc,          \* position of the entry point being run
  cells,       \* std::vector<CellCenter> read from CADPTS.DAT / FPLAIN.DAT
  elevations,  \* bed elevations read from FPLAIN.DAT, in file order
  files,       \* the optional text files next to the main file
  hdf,         \* the TIMDEP.HDF5 store (read side and write side)
  mMesh,       \* DriverFlo2D::mMesh
  status,      \* MDAL_Status reported by the entry point
  ub,          \* indices >= valuesCount at which a reader stored a value
  dsGroup,     \* the DatasetGroup handed to persist
  dsGroupName, \* appendGroup's local dsGroupName
  result,      \* what persist returned (TRUE on error)
  cell_size    \* load's local cell_size

vars == <<pc, cells, elevations, files, hdf, mMesh, status, ub, dsGroup, dsGroupName,
          result, cell_size>>

----------------------------------------------------------------------------
(* Numbers and the sentinel codec *)

Scale == 2^27
EpsUnits == 1
FLO2D_NAN == 0

MDAL_NAN == [nan |-> TRUE, num |-> 0]
Num(n) == [nan |-> FALSE, num |-> n]
isnan(v) == v.nan

Abs(n) == IF n < 0 THEN -n ELSE n

equals(val1, val2, eps) == Abs(val1 - val2) <= eps

(* as getDouble, with the sentinel test dropped *)
getDoubleNoDecode(val) == Num(val)

getDouble(val) == IF equals(val, FLO2D_NAN, EpsUnits) THEN MDAL_NAN ELSE Num(val)

toFlo2DDouble(v) == IF isnan(v) THEN FLO2D_NAN ELSE v.num

Pow2(e) == 2^e

RECURSIVE ExcessBits(_, _)
ExcessBits(m, e) == IF m < Pow2(24 + e) THEN e ELSE ExcessBits(m, e + 1)

(* static_cast<float>( double ): round to a 24-bit significand, ties to even *)
ToFloat(n) ==
  LET m == Abs(n)
      e == ExcessBits(m, 0)
      q == m \div Pow2(e)
      r == m % Pow2(e)
      up == (2 * r > Pow2(e)) \/ (2 * r = Pow2(e) /\ q % 2 = 1)
      f == (IF up THEN q + 1 ELSE q) * Pow2(e)
  IN IF n < 0 THEN -f ELSE f

----------------------------------------------------------------------------
(* Geometry reconstruction *)

Vertex(x, y) == [x |-> x, y |-> y]

VertexCompare(lhs, rhs) ==
  lhs.x * 1000000 + lhs.y * 1000 < rhs.x * 1000000 + rhs.y * 1000

RECURSIVE calcCellSizeFrom(_, _, _)
calcCellSizeFrom(cs, i, j) ==
  IF i >= Len(cs) THEN [thrown |-> TRUE, size |-> 0]
  ELSE IF j >= 4 THEN calcCellSizeFrom(cs, i + 1, 0)
  ELSE LET idx == cs[i + 1].conn[1]
       IN IF idx > -1
          THEN IF j = 0 \/ j = 2
               THEN [thrown |-> FALSE, size |-> Abs(cs[idx + 1].y - cs[i + 1].y)]
               ELSE [thrown |-> FALSE, size |-> Abs(cs[idx + 1].x - cs[i + 1].x)]
          ELSE calcCellSizeFrom(cs, i, j + 1)

calcCellSize(cs) == calcCellSizeFrom(cs, 0, 0)

(* half_cell_size and the result are in half units *)
createVertex(position, half_cell_size, cell) ==
  LET nx == 2 * cell.x
      ny == 2 * cell.y
  IN CASE position = 0 -> Vertex(nx + half_cell_size, ny - half_cell_size)
       [] position = 1 -> Vertex(nx + half_cell_size, ny + half_cell_size)
       [] position = 2 -> Vertex(nx - half_cell_size, ny + half_cell_size)
       [] position = 3 -> Vertex(nx - half_cell_size, ny - half_cell_size)

(* std::map<Vertex, size_t, VertexCompare>::find *)
MapFind(unique_vertices, n) ==
  {e \in unique_vertices : ~VertexCompare(e.key, n) /\ ~VertexCompare(n, e.key)}

EmptyBuild == [faces |-> <<>>, vertices |-> <<>>, unique_vertices |-> {}, vertex_idx |-> 0]

(* as addCorner, without ++vertex_idx *)
addCornerNoIncrement(b, e, n) ==
  LET found == MapFind(b.unique_vertices, n)
  IN IF found = {}
     THEN [faces |-> b.faces,
           vertices |-> Append(b.vertices, n),
           unique_vertices |-> b.unique_vertices \cup {[key |-> n, id |-> b.vertex_idx]},
           vertex_idx |-> b.vertex_idx,
           e |-> Append(e, b.vertex_idx)]
     ELSE [faces |-> b.faces,
           vertices |-> b.vertices,
           unique_vertices |-> b.unique_vertices,
           vertex_idx |-> b.vertex_idx,
           e |-> Append(e, (CHOOSE f \in found : TRUE).id)]

addCorner(b, e, n) ==
  LET found == MapFind(b.unique_vertices, n)
  IN IF found = {}
     THEN [faces |-> b.faces,
           vertices |-> Append(b.vertices, n),
           unique_vertices |-> b.unique_vertices \cup {[key |-> n, id |-> b.vertex_idx]},
           vertex_idx |-> b.vertex_idx + 1,
           e |-> Append(e, b.vertex_idx)]
     ELSE [faces |-> b.faces,
           vertices |-> b.vertices,
           unique_vertices |-> b.unique_vertices,
           vertex_idx |-> b.vertex_idx,
           e |-> Append(e, (CHOOSE f \in found : TRUE).id)]

RECURSIVE createFace(_, _, _, _, _)
createFace(b, e, position, half_cell_size, cell) ==
  IF position >= 4
  THEN [faces |-> Append(b.faces, e),
        vertices |-> b.vertices,
        unique_vertices |-> b.unique_vertices,
        vertex_idx |-> b.vertex_idx]
  ELSE LET s == addCorner(b, e, createVertex(position, half_cell_size, cell))
       IN createFace(s, s.e, position + 1, half_cell_size, cell)

RECURSIVE createMeshFrom(_, _, _, _)
createMeshFrom(b, cs, i, half_cell_size) ==
  IF i >= Len(cs) THEN b
  ELSE createMeshFrom(createFace(b, <<>>, 0, half_cell_size, cs[i + 1]), cs, i + 1, half_cell_size)

NullMesh == [null |-> TRUE, vertices |-> <<>>, faces |-> <<>>, datasetGroups |-> <<>>]

createMesh(cs, half_cell_size) ==
  LET b == createMeshFrom(EmptyBuild, cs, 0, half_cell_size)
  IN [null |-> FALSE, vertices |-> b.vertices, faces |-> b.faces, datasetGroups |-> <<>>]

verticesCount(m) == Len(m.vertices)
facesCount(m) == Len(m.faces)

----------------------------------------------------------------------------
(* Dataset groups.  Statistics are not modelled: no reader consults them.   *)

DatasetGroup(name, isScalar) ==
  [name |-> name, isScalar |-> isScalar, isOnVertices |-> FALSE, datasets |-> <<>>]

(* MemoryDataset::valuesCount for a group on faces *)
valuesCount(m) == facesCount(m)

(* MemoryDataset( group ): a buffer of valuesCount (twice that for a vector) *)
MemoryDataset(m, isScalar, time) ==
  [time |-> time,
   values |-> [i \in 1..(IF isScalar THEN valuesCount(m) ELSE 2 * valuesCount(m)) |-> MDAL_NAN]]

NoDataset == [present |-> FALSE, time |-> 0, values |-> <<>>]
Held(d) == [present |-> TRUE, time |-> d.time, values |-> d.values]

addDatasetToGroup(m, datasets, d) ==
  IF d.present /\ valuesCount(m) > 0
  THEN Append(datasets, [time |-> d.time, values |-> d.values])
  ELSE datasets

pushGroup(m, g) == [m EXCEPT !.datasetGroups = Append(@, g)]

addStaticDataset(m, vals, groupName) ==
  pushGroup(m, [DatasetGroup(groupName, TRUE) EXCEPT
                  !.datasets = <<[time |-> 0, values |-> vals]>>])

(* Outcome of a reader: the mesh, the status it threw ("None" when it      *)
(* returned), and the buffer indices it stored to beyond the buffer's end. *)
Ok(m, u) == [mesh |-> m, err |-> "None", ub |-> u]
Thrown(m, e, u) == [mesh |-> m, err |-> e, ub |-> u]

(* values()[i] = v on a buffer of Len(buf) elements; i is 0-based *)
Store(buf, i, v) == IF i < Len(buf) THEN [buf EXCEPT ![i + 1] = v] ELSE buf
OutOfBuffer(buf, i) == IF i < Len(buf) THEN {} ELSE {i}

TextFile(lines) == [exists |-> TRUE, lines |-> lines]
AbsentFile == [exists |-> FALSE, lines |-> <<>>]

----------------------------------------------------------------------------
(* parseTIMDEPFile *)

TimdepStart ==
  [depthDs |-> NoDataset, flowDs |-> NoDataset, waterLevelDs |-> NoDataset,
   depth |-> <<>>, flow |-> <<>>, waterLevel |-> <<>>,
   face_idx |-> 0, err |-> "None", ub |-> {}]

timdepMarker(m, st, lineParts) ==
  [st EXCEPT
     !.depth = addDatasetToGroup(m, st.depth, st.depthDs),
     !.flow = addDatasetToGroup(m, st.flow, st.flowDs),
     !.waterLevel = addDatasetToGroup(m, st.waterLevel, st.waterLevelDs),
     !.depthDs = Held(MemoryDataset(m, TRUE, lineParts[1])),
     !.flowDs = Held(MemoryDataset(m, FALSE, lineParts[1])),
     !.waterLevelDs = Held(MemoryDataset(m, TRUE, lineParts[1])),
     !.face_idx = 0]

timdepRecord(m, elev, st, lineParts) ==
  LET nVertexs == verticesCount(m)
      i == st.face_idx
      depth == getDouble(lineParts[2])
      level == IF ~isnan(depth) /\ i < Len(elev) THEN Num(depth.num + elev[i + 1]) ELSE depth
  IN IF ~st.depthDs.present \/ ~st.flowDs.present \/ ~st.waterLevelDs.present
     THEN [st EXCEPT !.err = "Err_UnknownFormat"]
     ELSE IF i = nVertexs
     THEN [st EXCEPT !.err = "Err_IncompatibleMesh"]
     ELSE [st EXCEPT
             !.flowDs.values = Store(Store(@, 2 * i, getDouble(lineParts[4])),
                                     2 * i + 1, getDouble(lineParts[5])),
             !.depthDs.values = Store(@, i, depth),
             !.waterLevelDs.values = Store(@, i, level),
             !.ub = @ \cup OutOfBuffer(st.depthDs.values, i),
             !.face_idx = i + 1]

timdepLine(m, elev, st, lineParts) ==
  IF Len(lineParts) = 1 THEN timdepMarker(m, st, lineParts)
  ELSE IF Len(lineParts) = 5 \/ Len(lineParts) = 6 THEN timdepRecord(m, elev, st, lineParts)
  ELSE [st EXCEPT !.err = "Err_UnknownFormat"]

RECURSIVE timdepLines(_, _, _, _, _)
timdepLines(m, elev, st, lines, k) ==
  IF k > Len(lines) \/ st.err # "None" THEN st
  ELSE timdepLines(m, elev, timdepLine(m, elev, st, lines[k]), lines, k + 1)

parseTIMDEPFile(m, file, elev) ==
  IF ~file.exists THEN Ok(m, {})
  ELSE LET st == timdepLines(m, elev, TimdepStart, file.lines, 1)
           depthDsGroup == [DatasetGroup("Depth", TRUE) EXCEPT
                              !.datasets = addDatasetToGroup(m, st.depth, st.depthDs)]
           flowDsGroup == [DatasetGroup("Velocity", FALSE) EXCEPT
                              !.datasets = addDatasetToGroup(m, st.flow, st.flowDs)]
           waterLevelDsGroup == [DatasetGroup("Water Level", TRUE) EXCEPT
                              !.datasets = addDatasetToGroup(m, st.waterLevel, st.waterLevelDs)]
       IN IF st.err # "None" THEN Thrown(m, st.err, st.ub)
          ELSE Ok(pushGroup(pushGroup(pushGroup(m, depthDsGroup), flowDsGroup),
                            waterLevelDsGroup), st.ub)

----------------------------------------------------------------------------
(* parseDEPTHFile, parseVELFPVELOCFile *)

(* std::vector<double>( nFaces ): value-initialised to 0.0 *)
ZeroVector(n) == [i \in 1..n |-> Num(0)]

RECURSIVE depthLines(_, _, _, _)
depthLines(nFaces, elev, st, lines) ==
  IF st.vertex_idx >= Len(lines) \/ st.err # "None" THEN st
  ELSE LET lineParts == lines[st.vertex_idx + 1]
           i == st.vertex_idx
           val == getDouble(lineParts[4])
       IN IF i = nFaces THEN [st EXCEPT !.err = "Err_IncompatibleMesh"]
          ELSE IF Len(lineParts) # 4 THEN [st EXCEPT !.err = "Err_UnknownFormat"]
          ELSE depthLines(nFaces, elev,
                 [st EXCEPT !.maxDepth[i + 1] = val,
                            !.maxWaterLevel[i + 1] =
                               IF ~isnan(val) THEN Num(val.num + elev[i + 1]) ELSE val,
                            !.vertex_idx = i + 1],
                 lines)

parseDEPTHFile(m, file, elev) ==
  IF ~file.exists THEN Ok(m, {})
  ELSE LET nFaces == facesCount(m)
           st == depthLines(nFaces, elev,
                            [maxDepth |-> ZeroVector(nFaces), maxWaterLevel |-> ZeroVector(nFaces),
                             vertex_idx |-> 0, err |-> "None"],
                            file.lines)
       IN IF st.err # "None" THEN Thrown(m, st.err, {})
          ELSE Ok(addStaticDataset(addStaticDataset(m, st.maxDepth, "Depth/Maximums"),
                                   st.maxWaterLevel, "Water Level/Maximums"), {})

(* the loop over VELFP.OUT *)
RECURSIVE velfpLines(_, _, _)
velfpLines(nFaces, st, lines) ==
  IF st.vertex_idx >= Len(lines) \/ st.err # "None" THEN st
  ELSE LET lineParts == lines[st.vertex_idx + 1]
           i == st.vertex_idx
       IN IF i = nFaces THEN [st EXCEPT !.err = "Err_IncompatibleMesh"]
          ELSE IF Len(lineParts) # 4 THEN [st EXCEPT !.err = "Err_UnknownFormat"]
          ELSE velfpLines(nFaces,
                 [st EXCEPT !.maxVel[i + 1] = getDouble(lineParts[4]), !.vertex_idx = i + 1],
                 lines)

(* as velocLines, with the isnan test dropped *)
RECURSIVE velocLinesOverwrite(_, _, _)
velocLinesOverwrite(nFaces, st, lines) ==
  IF st.vertex_idx >= Len(lines) \/ st.err # "None" THEN st
  ELSE LET lineParts == lines[st.vertex_idx + 1]
           i == st.vertex_idx
       IN IF i = nFaces THEN [st EXCEPT !.err = "Err_IncompatibleMesh"]
          ELSE IF Len(lineParts) # 4 THEN [st EXCEPT !.err = "Err_UnknownFormat"]
          ELSE velocLinesOverwrite(nFaces,
                 [st EXCEPT !.maxVel[i + 1] = getDouble(lineParts[4]), !.vertex_idx = i + 1],
                 lines)

(* the loop over VELOC.OUT *)
RECURSIVE velocLines(_, _, _)
velocLines(nFaces, st, lines) ==
  IF st.vertex_idx >= Len(lines) \/ st.err # "None" THEN st
  ELSE LET lineParts == lines[st.vertex_idx + 1]
           i == st.vertex_idx
           val == getDouble(lineParts[4])
       IN IF i = nFaces THEN [st EXCEPT !.err = "Err_IncompatibleMesh"]
          ELSE IF Len(lineParts) # 4 THEN [st EXCEPT !.err = "Err_UnknownFormat"]
          ELSE velocLines(nFaces,
                 [st EXCEPT !.maxVel[i + 1] = IF ~isnan(val) THEN val ELSE @,
                            !.vertex_idx = i + 1],
                 lines)

parseVELFPVELOCFile(m, velfp, veloc) ==
  LET nFaces == facesCount(m)
      st0 == [maxVel |-> ZeroVector(nFaces), vertex_idx |-> 0, err |-> "None"]
  IN IF ~velfp.exists THEN Ok(m, {})
     ELSE LET st1 == velfpLines(nFaces, st0, velfp.lines)
          IN IF st1.err # "None" THEN Thrown(m, st1.err, {})
             ELSE IF ~veloc.exists THEN Ok(m, {})
             ELSE LET st2 == velocLines(nFaces, [st1 EXCEPT !.vertex_idx = 0], veloc.lines)
                  IN IF st2.err # "None" THEN Thrown(m, st2.err, {})
                     ELSE Ok(addStaticDataset(m, st2.maxVel, "Velocity/Maximums"), {})

(* parseOUTDatasets: the three text readers in turn; a throw ends it *)
parseOUTDatasets(m, fs, elev) ==
  LET r1 == parseTIMDEPFile(m, fs.timdep, elev)
  IN IF r1.err # "None" THEN r1
     ELSE LET r2 == parseDEPTHFile(r1.mesh, fs.depth, elev)
          IN IF r2.err # "None" THEN Thrown(r2.mesh, r2.err, r1.ub)
             ELSE LET r3 == parseVELFPVELOCFile(r2.mesh, fs.velfp, fs.veloc)
                  IN [r3 EXCEPT !.ub = r1.ub]

----------------------------------------------------------------------------
(* The HDF5 store, as the driver sees it: a file that may exist and open,  *)
(* the results group, and its sub-groups in the order groups() lists them. *)

NoStore == [exists |-> FALSE, valid |-> FALSE, hasResults |-> FALSE, groups |-> <<>>]

SubGroup(name, grouptype, times, values) ==
  [name |-> name, hasGrouptype |-> TRUE, grouptype |-> grouptype,
   hasTimes |-> TRUE, times |-> times, hasValues |-> TRUE, values |-> values]

(* MDAL::contains( groupType.readString(), "vector", CaseInsensitive ) *)
VectorTypes == {"DATASET VECTOR", "Dataset Vector"}
containsVector(str) == str \in VectorTypes

(* one MemoryDataset of parseHDF5Datasets: time slice ts of the values array *)
hdfDataset(m, isVector, times, values, ts) ==
  LET nFaces == facesCount(m)
      out == MemoryDataset(m, ~isVector, times[ts + 1])
  IN IF isVector
     THEN [out EXCEPT !.values =
             [k \in 1..(2 * nFaces) |-> getDouble(values[2 * (ts * nFaces) + k])]]
     ELSE [out EXCEPT !.values =
             [k \in 1..nFaces |-> getDouble(values[ts * nFaces + k])]]

RECURSIVE hdfDatasets(_, _, _, _, _, _)
hdfDatasets(m, isVector, times, values, ts, acc) ==
  IF ts >= Len(times) THEN acc
  ELSE hdfDatasets(m, isVector, times, values, ts + 1,
                   addDatasetToGroup(m, acc, Held(hdfDataset(m, isVector, times, values, ts))))

RECURSIVE hdfGroups(_, _, _)
hdfGroups(m, groups, k) ==
  IF k > Len(groups) THEN [failed |-> FALSE, mesh |-> m]
  ELSE LET grp == groups[k]
           timesteps == Len(grp.times)
           isVector == containsVector(grp.grouptype)
           expectedSize == IF isVector THEN facesCount(m) * timesteps * 2
                           ELSE facesCount(m) * timesteps
       IN IF ~grp.hasGrouptype \/ ~grp.hasTimes \/ ~grp.hasValues
             \/ Len(grp.values) # expectedSize
          THEN [failed |-> TRUE, mesh |-> m]
          ELSE hdfGroups(
                 pushGroup(m, [DatasetGroup(grp.name, ~isVector) EXCEPT
                                 !.datasets = hdfDatasets(m, isVector, grp.times, grp.values, 0, <<>>)]),
                 groups, k + 1)

(* returns failed = TRUE on error *)
parseHDF5Datasets(m, store) ==
  IF ~store.exists \/ ~store.valid \/ ~store.hasResults
  THEN [failed |-> TRUE, mesh |-> m]
  ELSE hdfGroups(m, store.groups, 1)

----------------------------------------------------------------------------
(* parseCADPTSFile, parseFPLAINFile and load( resultsFile ) *)

(* CellCenter is [x, y, conn]; cc.id is written and never read *)
RECURSIVE cadptsLines(_, _, _)
cadptsLines(lines, k, acc) ==
  IF k > Len(lines) THEN [err |-> "None", cells |-> acc]
  ELSE IF Len(lines[k]) # 3 THEN [err |-> "Err_UnknownFormat", cells |-> acc]
  ELSE cadptsLines(lines, k + 1,
         Append(acc, [x |-> lines[k][2], y |-> lines[k][3], conn |-> <<0, 0, 0, 0>>]))

parseCADPTSFile(file) ==
  IF ~file.exists THEN [err |-> "Err_FileNotFound", cells |-> <<>>]
  ELSE cadptsLines(file.lines, 1, <<>>)

RECURSIVE fplainLines(_, _, _, _)
fplainLines(lines, k, cs, elev) ==
  IF k > Len(lines) THEN [err |-> "None", cells |-> cs, elevations |-> elev]
  ELSE IF Len(lines[k]) # 7 THEN [err |-> "Err_UnknownFormat", cells |-> cs, elevations |-> elev]
  ELSE LET cc_i == lines[k][1] - 1
       IN fplainLines(lines, k + 1,
            [cs EXCEPT ![cc_i + 1].conn = [j \in 1..4 |-> lines[k][j + 1] - 1]],
            Append(elev, lines[k][7]))

parseFPLAINFile(file, cs) ==
  IF ~file.exists THEN [err |-> "Err_FileNotFound", cells |-> cs, elevations |-> <<>>]
  ELSE fplainLines(file.lines, 1, cs, <<>>)

LoadFailed(e, cs, elev) ==
  [mesh |-> NullMesh, status |-> e, ub |-> {}, cells |-> cs, elevations |-> elev, cell_size |-> 0]

LoadDone(m, e, u, f, size) ==
  [mesh |-> m, status |-> e, ub |-> u, cells |-> f.cells, elevations |-> f.elevations,
   cell_size |-> size]

(* as loadAfterText, with the catch block leaving mMesh as the readers left it *)
loadAfterTextKeepMesh(f, size, r) ==
  IF r.err # "None" THEN LoadDone(r.mesh, r.err, r.ub, f, size)
  ELSE LoadDone(r.mesh, "None", r.ub, f, size)

(* the catch block: the status is reported and mMesh is reset *)
loadAfterText(f, size, r) ==
  IF r.err # "None" THEN LoadDone(NullMesh, r.err, r.ub, f, size)
  ELSE LoadDone(r.mesh, "None", r.ub, f, size)

(* "some problem with HDF5 data, try text files" *)
loadAfterHDF5(fs, f, size, h) ==
  IF ~h.failed THEN LoadDone(h.mesh, "None", {}, f, size)
  ELSE loadAfterText(f, size, parseOUTDatasets(h.mesh, fs, f.elevations))

bedElevation(elev) == [i \in 1..Len(elev) |-> Num(elev[i])]

loadAfterCellSize(fs, store, f, size) ==
  IF size.thrown THEN LoadFailed("Err_IncompatibleMesh", f.cells, f.elevations)
  ELSE loadAfterHDF5(fs, f, size.size,
         parseHDF5Datasets(
           addStaticDataset(createMesh(f.cells, size.size), bedElevation(f.elevations),
                            "Bed Elevation"),
           store))

loadAfterFPLAIN(fs, store, f) ==
  IF f.err # "None" THEN LoadFailed(f.err, f.cells, f.elevations)
  ELSE loadAfterCellSize(fs, store, f, calcCellSize(f.cells))

loadAfterCADPTS(fs, store, c) ==
  IF c.err # "None" THEN LoadFailed(c.err, c.cells, <<>>)
  ELSE loadAfterFPLAIN(fs, store, parseFPLAINFile(fs.fplain, c.cells))

(* load( resultsFile, status ): the try block and its catch *)
load(fs, store) == loadAfterCADPTS(fs, store, parseCADPTSFile(fs.cadpts))

----------------------------------------------------------------------------
(* persist, saveNewHDF5File, addToHDF5File, appendGroup *)

BootstrapStore == [exists |-> TRUE, valid |-> TRUE, hasResults |-> TRUE, groups |-> <<>>]

(* file.pathExists( "/TIMDEP NETCDF OUTPUT RESULTS/" + name ) *)
pathExists(store, name) == \E k \in 1..Len(store.groups) : store.groups[k].name = name

(* the values array appendGroup prepares: row i is dataset i, encoded, as float *)
preparedValues(g, valCount) ==
  [k \in 1..(Len(g.datasets) * valCount) |->
     ToFloat(toFlo2DDouble(g.datasets[((k - 1) \div valCount) + 1].values[((k - 1) % valCount) + 1]))]

(* std::vector<double> times( timesCount ), then one push_back per dataset *)
preparedTimes(g) ==
  [k \in 1..Len(g.datasets) |-> 0] \o [k \in 1..Len(g.datasets) |-> g.datasets[k].time]

(* HdfDataset::write on a dataset of `count` elements takes the first `count` *)
hdfWrite(buffer, count) == SubSeq(buffer, 1, count)

(* the sub-group appendGroup creates once the name loop has ended *)
writtenGroup(g, m, name) ==
  LET timesCount == Len(g.datasets)
      valCount == IF g.isScalar THEN facesCount(m) ELSE 2 * facesCount(m)
  IN SubGroup(name,
              IF g.isScalar THEN "DATASET SCALAR" ELSE "DATASET VECTOR",
              hdfWrite(preparedTimes(g), timesCount),
              hdfWrite(preparedValues(g, valCount), timesCount * valCount))

(* the body of the name loop: i is never advanced *)
nextGroupName(g, i) == g.name \o "_" \o ToString(i)

----------------------------------------------------------------------------
(* Geometry reconstruction on its own: calcCellSize and createMesh applied  *)
(* to a cell list as parseCADPTSFile / parseFPLAINFile leave it.            *)

MaxCells == 3

GeomPoints == {<<0, 0>>, <<0, 2>>, <<2, 0>>, <<1, -1000>>}

NoFiles == [cadpts |-> AbsentFile, fplain |-> AbsentFile, timdep |-> AbsentFile,
            depth |-> AbsentFile, velfp |-> AbsentFile, veloc |-> AbsentFile]

NoGroup == [name |-> "", isScalar |-> TRUE, isOnVertices |-> FALSE, datasets |-> <<>>]

(* slot 0 of a choice is "no neighbour"; slot s in 1..4 names the next cell of the list *)
ConnOf(i, n, s) == [j \in 1..4 |-> IF j = s THEN i % n ELSE -1]

CellList(n, f) ==
  [i \in 1..n |-> [x |-> f[i][1][1], y |-> f[i][1][2], conn |-> ConnOf(i, n, f[i][2])]]

InitGeom ==
  /\ pc = "geom"
  /\ \E n \in 1..MaxCells : \E f \in [1..n -> GeomPoints \X (0..4)] : cells = CellList(n, f)
  /\ elevations = <<>>
  /\ files = NoFiles
  /\ hdf = NoStore
  /\ mMesh = NullMesh
  /\ status = "None"
  /\ ub = {}
  /\ dsGroup = NoGroup
  /\ dsGroupName = ""
  /\ result = FALSE
  /\ cell_size = 0

GeometryBuilt ==
  /\ pc = "geom"
  /\ ~calcCellSize(cells).thrown
  /\ cell_size' = calcCellSize(cells).size
  /\ mMesh' = createMesh(cells, calcCellSize(cells).size)
  /\ pc' = "done"
  /\ UNCHANGED <<cells, elevations, files, hdf, status, ub, dsGroup, dsGroupName, result>>

GeometryRejected ==
  /\ pc = "geom"
  /\ calcCellSize(cells).thrown
  /\ status' = "Err_IncompatibleMesh"
  /\ mMesh' = NullMesh
  /\ pc' = "done"
  /\ UNCHANGED <<cells, elevations, files, hdf, ub, dsGroup, dsGroupName, result, cell_size>>

NextGeom == GeometryBuilt \/ GeometryRejected

SpecGeom == InitGeom /\ [][NextGeom]_vars

(* the face indices of the mesh in the order createMesh assigned them *)
FaceIndex(m, p) == m.faces[((p - 1) \div 4) + 1][((p - 1) % 4) + 1]

FirstOccurrenceOrder(m) ==
  \A p \in 1..(4 * Len(m.faces)) :
    LET earlier == {FaceIndex(m, q) : q \in 1..(p - 1)}
    IN FaceIndex(m, p) \in earlier \/ FaceIndex(m, p) = Cardinality(earlier)

(* C8: an accepted cell list gives one face per cell, each of 4 vertex
   indices below the vertex count, numbered 0,1,2,... by first occurrence,
   every vertex index being used by some face. *)
Thm_C8_FacesWellFormed ==
  (pc = "done" /\ ~mMesh.null) =>
    /\ Len(mMesh.faces) = Len(cells)
    /\ \A k \in 1..Len(mMesh.faces) :
         /\ Len(mMesh.faces[k]) = 4
         /\ \A c \in 1..4 : mMesh.faces[k][c] \in 0..(verticesCount(mMesh) - 1)
    /\ FirstOccurrenceOrder(mMesh)
    /\ {FaceIndex(mMesh, p) : p \in 1..(4 * Len(mMesh.faces))} = 0..(verticesCount(mMesh) - 1)

Wit_C8_SharedCorners ==
  /\ pc = "done" /\ ~mMesh.null
  /\ Len(mMesh.faces) = 3
  /\ verticesCount(mMesh) = 8

FaceSet(m, k) == {m.faces[k][c] : c \in 1..4}

(* cells i and j are one cell size apart along one axis and level on the other *)
ShareSide(cs, size, i, j) ==
  \/ cs[i].x = cs[j].x /\ Abs(cs[i].y - cs[j].y) = size
  \/ cs[i].y = cs[j].y /\ Abs(cs[i].x - cs[j].x) = size

Corners(size, cell) == {createVertex(position, size, cell) : position \in 0..3}

(* C9: the faces of two cells that share a side (positive cell size) have
   exactly two vertex indices in common, and the vertices stored at those
   indices are the two corner points of the shared side. *)
Cex_C9_SharedSideVertices ==
  (pc = "done" /\ ~mMesh.null /\ cell_size > 0) =>
    \A i, j \in 1..Len(cells) :
      (i # j /\ ShareSide(cells, cell_size, i, j)) =>
        LET common == FaceSet(mMesh, i) \cap FaceSet(mMesh, j)
        IN /\ Cardinality(common) = 2
           /\ {mMesh.vertices[v + 1] : v \in common} =
                Corners(cell_size, cells[i]) \cap Corners(cell_size, cells[j])

(* C12 *)
HasNeighbour(cell) == \E j \in 1..4 : cell.conn[j] > -1

FirstLinked(cs) == CHOOSE i \in 1..Len(cs) :
  HasNeighbour(cs[i]) /\ \A k \in 1..(i - 1) : ~HasNeighbour(cs[k])

FirstSlot(cell) == CHOOSE j \in 1..4 :
  cell.conn[j] > -1 /\ \A k \in 1..(j - 1) : cell.conn[k] = -1

(* the distance from the first cell with a neighbour to that neighbour:
   along y for north (slot 1) and south (slot 3), along x for east and west *)
NeighbourDistance(cs) ==
  LET i == FirstLinked(cs)
      j == FirstSlot(cs[i])
      n == cs[i].conn[j] + 1
  IN IF j = 1 \/ j = 3 THEN Abs(cs[n].y - cs[i].y) ELSE Abs(cs[n].x - cs[i].x)

(* C12: when some cell has a neighbour in any of its four slots, geometry
   reconstruction does not fail with IncompatibleMesh and the cell size is
   the coordinate difference between the first such cell and that neighbour
   along the slot's axis (the half-size is one half of it); IncompatibleMesh
   is raised only when no cell has a neighbour. *)
Cex_C12_CellSizeFromAnySlot ==
  (pc = "done" /\ \E i \in 1..Len(cells) : HasNeighbour(cells[i])) =>
    /\ status # "Err_IncompatibleMesh"
    /\ ~mMesh.null
    /\ cell_size = NeighbourDistance(cells)

(* C14: createMesh never merges distinct points: two synthesized corner
   points with different coordinates, of the same cell or of different
   cells, get different vertex indices, so the vertex count is the number of
   distinct corner coordinates. *)
Cex_C14_DistinctPointsDistinctIndices ==
  (pc = "done" /\ ~mMesh.null) =>
    /\ \A i, j \in 1..Len(cells) : \A p, q \in 0..3 :
         createVertex(p, cell_size, cells[i]) # createVertex(q, cell_size, cells[j]) =>
           mMesh.faces[i][p + 1] # mMesh.faces[j][q + 1]
    /\ verticesCount(mMesh) =
         Cardinality(UNION {Corners(cell_size, cells[i]) : i \in 1..Len(cells)})

----------------------------------------------------------------------------
(* load( resultsFile ) over input sets: a geometry, then one of             *)
(* a TIMDEP.OUT, a DEPTH.OUT, a VELFP.OUT / VELOC.OUT pair, or a store.     *)

MaxLines == 4
MaxVelLines == 3
MaxGroups == 2

StackedCadpts == TextFile(<< <<1, 0, 0>>, <<2, 0, 2>> >>)
CoincidentCadpts == TextFile(<< <<1, 0, 0>>, <<2, 0, 0>> >>)
Fplain(e1, e2) == TextFile(<< <<1, 2, 0, 0, 0, 0, e1>>, <<2, 0, 0, 1, 0, 0, e2>> >>)

ShortCadpts == TextFile(<< <<1, 0, 0>>, <<2, 0>> >>)
ShortFplain == TextFile(<< <<1, 2, 0, 0, 0, 0, -Scale>>, <<2, 0, 0, 1>> >>)
IsolatedFplain == TextFile(<< <<1, 0, 0, 0, 0, 0, -Scale>>, <<2, 0, 0, 0, 0, 0, 0>> >>)

GeometryInputs ==
  { <<StackedCadpts, Fplain(-Scale, 0)>>,
    <<StackedCadpts, Fplain(Scale, 2 * Scale)>>,
    <<CoincidentCadpts, Fplain(-Scale, 0)>>,
    <<AbsentFile, Fplain(-Scale, 0)>>,
    <<ShortCadpts, Fplain(-Scale, 0)>>,
    <<StackedCadpts, AbsentFile>>,
    <<StackedCadpts, ShortFplain>>,
    <<StackedCadpts, IsolatedFplain>> }

TimdepAlphabet ==
  { <<Scale>>, <<2 * Scale>>,
    <<1, Scale, Scale, 2 * Scale, 0>>,
    <<2, 0, 0, 1, 3 * Scale>>,
    <<1, Scale, Scale, 2 * Scale, 3 * Scale, 4 * Scale>>,
    <<1, Scale>> }

VelfpAlphabet == { <<1, 0, 0, 2 * Scale>>, <<1, 0, 0, 0>>, <<1, 0, 0>> }
VelocAlphabet == { <<1, 0, 0, 3 * Scale>>, <<1, 0, 0, 0>>, <<1, 0, 0>> }

InputSet(g, timdep, depth, velfp, veloc) ==
  [cadpts |-> g[1], fplain |-> g[2], timdep |-> timdep, depth |-> depth,
   velfp |-> velfp, veloc |-> veloc]

SubGroupKinds == {"scalar", "vector", "noGrouptype", "noTimes", "noValues", "wrongSize"}

(* a sub-group for a mesh of two faces *)
SubGroupOf(kind, name) ==
  LET scalar == SubGroup(name, "DATASET SCALAR", <<Scale>>, <<0, 2 * Scale>>)
  IN CASE kind = "scalar" -> scalar
       [] kind = "vector" -> SubGroup(name, "Dataset Vector", <<Scale>>, <<Scale, 0, 1, 3 * Scale>>)
       [] kind = "noGrouptype" -> [scalar EXCEPT !.hasGrouptype = FALSE]
       [] kind = "noTimes" -> [scalar EXCEPT !.hasTimes = FALSE, !.times = <<>>]
       [] kind = "noValues" -> [scalar EXCEPT !.hasValues = FALSE, !.values = <<>>]
       [] kind = "wrongSize" -> [scalar EXCEPT !.values = <<Scale>>]

StoreOf(kinds) ==
  [BootstrapStore EXCEPT !.groups = [k \in 1..Len(kinds) |-> SubGroupOf(kinds[k], "G" \o ToString(k))]]

BrokenStores ==
  { NoStore,
    [BootstrapStore EXCEPT !.valid = FALSE, !.hasResults = FALSE],
    [BootstrapStore EXCEPT !.hasResults = FALSE] }

SliceFile == TextFile(<< <<Scale>>, <<1, Scale, Scale, 2 * Scale, 0>>, <<2, 0, 0, 1, 3 * Scale>> >>)
MaximaFile == TextFile(<< <<1, 0, 0, 2 * Scale>>, <<2, 0, 0, 0>> >>)
ShortMaximaFile == TextFile(<< <<1, 0, 0, 2 * Scale>>, <<2, 0, 0>> >>)

InitLoad ==
  /\ pc = "load"
  /\ \E g \in GeometryInputs :
       \/ /\ \E n \in 0..MaxLines : \E l \in [1..n -> TimdepAlphabet] :
               files = InputSet(g, TextFile(l), AbsentFile, AbsentFile, AbsentFile)
          /\ hdf = NoStore
       \/ /\ \E n \in 0..MaxVelLines : \E l \in [1..n -> VelfpAlphabet] :
               files = InputSet(g, AbsentFile, TextFile(l), AbsentFile, AbsentFile)
          /\ hdf = NoStore
       \/ /\ \E n1 \in 0..MaxVelLines : \E l1 \in [1..n1 -> VelfpAlphabet] :
             \E n2 \in 0..MaxVelLines : \E l2 \in [1..n2 -> VelocAlphabet] :
             \E e1, e2 \in BOOLEAN :
               files = InputSet(g, AbsentFile, AbsentFile,
                                IF e1 THEN TextFile(l1) ELSE AbsentFile,
                                IF e2 THEN TextFile(l2) ELSE AbsentFile)
          /\ hdf = NoStore
       \/ /\ \E t \in {AbsentFile, SliceFile} : \E d \in {AbsentFile, MaximaFile, ShortMaximaFile} :
               files = InputSet(g, t, d, AbsentFile, AbsentFile)
          /\ \/ hdf \in BrokenStores
             \/ \E n \in 0..MaxGroups : \E kinds \in [1..n -> SubGroupKinds] : hdf = StoreOf(kinds)
  /\ cells = <<>>
  /\ elevations = <<>>
  /\ mMesh = NullMesh
  /\ status = "None"
  /\ ub = {}
  /\ dsGroup = NoGroup
  /\ dsGroupName = ""
  /\ result = FALSE
  /\ cell_size = 0

(* load returns: the mesh (or none) and the status *)
LoadReturns ==
  /\ pc = "load"
  /\ \E r \in {load(files, hdf)} :
        /\ mMesh' = r.mesh
        /\ status' = r.status
        /\ ub' = r.ub
        /\ cells' = r.cells
        /\ elevations' = r.elevations
        /\ cell_size' = r.cell_size
  /\ pc' = "loaded"
  /\ UNCHANGED <<files, hdf, dsGroup, dsGroupName, result>>

(* a store beyond the end of a dataset's buffer may also end the process *)
LoadCrashes ==
  /\ pc = "load"
  /\ \E r \in {load(files, hdf)} : r.ub # {} /\ ub' = r.ub
  /\ pc' = "crashed"
  /\ UNCHANGED <<cells, elevations, files, hdf, mMesh, status, dsGroup, dsGroupName, result, cell_size>>

NextLoad == LoadReturns \/ LoadCrashes

SpecLoad == InitLoad /\ [][NextLoad]_vars

(* the mesh load has built when it turns to the datasets: geometry and Bed Elevation *)
BaseMesh ==
  load([files EXCEPT !.timdep = AbsentFile, !.depth = AbsentFile,
                     !.velfp = AbsentFile, !.veloc = AbsentFile], NoStore).mesh

(* parseHDF5Datasets reports failure, so load turns to the text readers *)
BinaryFailed == ~BaseMesh.null /\ parseHDF5Datasets(BaseMesh, hdf).failed

(* C1: when the binary reader reports failure, the mesh's dataset groups
   are exactly those of the same input set loaded without a binary store. *)
Cex_C1_NoBinaryGroupsAfterFailure ==
  (pc = "loaded" /\ BinaryFailed) =>
    mMesh.datasetGroups = load(files, NoStore).mesh.datasetGroups

IsMarker(line) == Len(line) = 1
IsRecord(line) == Len(line) = 5 \/ Len(line) = 6

(* a well-formed prefix ending in the (F+1)-th record of one slice *)
Overrun(lines, F) ==
  \E p \in 1..Len(lines) :
    /\ IsMarker(lines[1])
    /\ \A q \in 1..p : IsMarker(lines[q]) \/ IsRecord(lines[q])
    /\ p > F + 1
    /\ \A q \in (p - F)..p : IsRecord(lines[q])

(* C4: more than facesCount records in one slice make the time-varying
   reader fail with IncompatibleMesh, and it never stores a record at a face
   index >= facesCount. *)
Cex_C4_OverrunIsIncompatibleMesh ==
  (pc \in {"loaded", "crashed"} /\ BinaryFailed /\ files.timdep.exists
     /\ Overrun(files.timdep.lines, facesCount(BaseMesh))) =>
    (status = "Err_IncompatibleMesh" /\ ub = {})

(* k markers, each followed by exactly F records *)
SliceCount(lines, F) == Len(lines) \div (F + 1)
WellFormedTimdep(lines, F) ==
  /\ Len(lines) % (F + 1) = 0
  /\ \A q \in 1..Len(lines) :
       IF (q - 1) % (F + 1) = 0 THEN IsMarker(lines[q]) ELSE IsRecord(lines[q])

SliceMarker(lines, F, i) == lines[(i - 1) * (F + 1) + 1]
SliceRecord(lines, F, i, j) == lines[(i - 1) * (F + 1) + 1 + j]
Decoded(field) == IF Abs(field) <= EpsUnits THEN MDAL_NAN ELSE Num(field)

ExpectedDepth(lines, F) ==
  [i \in 1..SliceCount(lines, F) |->
     [time |-> SliceMarker(lines, F, i)[1],
      values |-> [j \in 1..F |-> Decoded(SliceRecord(lines, F, i, j)[2])]]]

ExpectedVelocity(lines, F) ==
  [i \in 1..SliceCount(lines, F) |->
     [time |-> SliceMarker(lines, F, i)[1],
      values |-> [c \in 1..(2 * F) |->
                    Decoded(SliceRecord(lines, F, i, (c + 1) \div 2)[IF c % 2 = 1 THEN 4 ELSE 5])]]]

ExpectedWaterLevel(lines, F, elev) ==
  [i \in 1..SliceCount(lines, F) |->
     [time |-> SliceMarker(lines, F, i)[1],
      values |-> [j \in 1..F |->
                    IF Decoded(SliceRecord(lines, F, i, j)[2]).nan THEN MDAL_NAN
                    ELSE Num(SliceRecord(lines, F, i, j)[2] + elev[j])]]]

FaceGroup(name, isScalar, datasets) ==
  [name |-> name, isScalar |-> isScalar, isOnVertices |-> FALSE, datasets |-> datasets]

(* the readers that run after the time-varying reader do not throw *)
LaterReadersReturn == load([files EXCEPT !.timdep = AbsentFile], NoStore).status = "None"

(* the number of groups on the mesh when the text readers start *)
GroupsBeforeText == Len(parseHDF5Datasets(BaseMesh, hdf).mesh.datasetGroups)

(* C5: k markers, each followed by exactly facesCount records, give the
   groups Depth, Velocity and Water Level with k datasets each, in file
   order, holding the decoded fields and depth + bed elevation. *)
Cex_C5_SlicesBecomeDatasets ==
  (pc = "loaded" /\ BinaryFailed /\ files.timdep.exists /\ LaterReadersReturn
     /\ WellFormedTimdep(files.timdep.lines, facesCount(BaseMesh))) =>
    /\ ~mMesh.null
    /\ Len(mMesh.datasetGroups) >= GroupsBeforeText + 3
    /\ mMesh.datasetGroups[GroupsBeforeText + 1] =
         FaceGroup("Depth", TRUE, ExpectedDepth(files.timdep.lines, facesCount(BaseMesh)))
    /\ mMesh.datasetGroups[GroupsBeforeText + 2] =
         FaceGroup("Velocity", FALSE, ExpectedVelocity(files.timdep.lines, facesCount(BaseMesh)))
    /\ mMesh.datasetGroups[GroupsBeforeText + 3] =
         FaceGroup("Water Level", TRUE,
                   ExpectedWaterLevel(files.timdep.lines, facesCount(BaseMesh), elevations))

(* exactly F lines of 4 fields *)
WellFormedMaxima(file, F) ==
  file.exists /\ Len(file.lines) = F /\ \A q \in 1..F : Len(file.lines[q]) = 4

(* the readers that run before the velocity maxima reader did not throw *)
ReachedVelocityReader ==
  /\ BinaryFailed
  /\ load([files EXCEPT !.velfp = AbsentFile, !.veloc = AbsentFile], NoStore).status = "None"

LastGroup(m) == m.datasetGroups[Len(m.datasetGroups)]

(* C6: with VELFP.OUT and VELOC.OUT both well-formed, Velocity/Maximums
   holds at each face the VELOC.OUT value where it decodes to non-missing
   and the decoded VELFP.OUT value otherwise. *)
Thm_C6_ChannelOverridesFloodplain ==
  (pc = "loaded" /\ ReachedVelocityReader
     /\ WellFormedMaxima(files.velfp, facesCount(BaseMesh))
     /\ WellFormedMaxima(files.veloc, facesCount(BaseMesh))) =>
    /\ status = "None" /\ ~mMesh.null
    /\ LastGroup(mMesh) =
         FaceGroup("Velocity/Maximums", TRUE,
           <<[time |-> 0,
              values |-> [j \in 1..facesCount(BaseMesh) |->
                            IF Decoded(files.veloc.lines[j][4]).nan
                            THEN Decoded(files.velfp.lines[j][4])
                            ELSE Decoded(files.veloc.lines[j][4])]]>>)

Wit_C6_BothVelocitySources ==
  /\ pc = "loaded" /\ status = "None"
  /\ files.velfp.lines = << <<1, 0, 0, 2 * Scale>>, <<1, 0, 0, 2 * Scale>> >>
  /\ files.veloc.lines = << <<1, 0, 0, 0>>, <<1, 0, 0, 3 * Scale>> >>
  /\ files.velfp.exists /\ files.veloc.exists
  /\ LastGroup(mMesh).name = "Velocity/Maximums"
  /\ LastGroup(mMesh).datasets[1].values = <<Num(2 * Scale), Num(3 * Scale)>>

(* C7: with VELFP.OUT well-formed and VELOC.OUT absent, the reader still
   appends Velocity/Maximums holding the decoded VELFP.OUT values. *)
Cex_C7_ChannelSourceOptional ==
  (pc = "loaded" /\ ReachedVelocityReader
     /\ WellFormedMaxima(files.velfp, facesCount(BaseMesh))
     /\ ~files.veloc.exists) =>
    /\ status = "None" /\ ~mMesh.null
    /\ LastGroup(mMesh) =
         FaceGroup("Velocity/Maximums", TRUE,
           <<[time |-> 0,
              values |-> [j \in 1..facesCount(BaseMesh) |-> Decoded(files.velfp.lines[j][4])]]>>)

NotSentinel(v) == v.nan \/ Abs(v.num) > EpsUnits

(* C10: after a successful load no value of any dataset of any group is
   within 1e-8 of 0.0. *)
Cex_C10_NoValueNearZero ==
  (pc = "loaded" /\ status = "None" /\ ~mMesh.null) =>
    \A g \in 1..Len(mMesh.datasetGroups) :
      \A d \in 1..Len(mMesh.datasetGroups[g].datasets) :
        \A i \in 1..Len(mMesh.datasetGroups[g].datasets[d].values) :
          NotSentinel(mMesh.datasetGroups[g].datasets[d].values[i])

Min(a, b) == IF a < b THEN a ELSE b

(* the number of records between the d-th marker and the next marker or the end *)
MarkerPositions(lines) == {q \in 1..Len(lines) : IsMarker(lines[q])}
NthMarker(lines, d) ==
  CHOOSE q \in MarkerPositions(lines) : Cardinality({r \in MarkerPositions(lines) : r <= q}) = d
RecordsInSlice(lines, d) ==
  LET p == NthMarker(lines, d)
      later == {q \in MarkerPositions(lines) : q > p}
      stop == IF later = {} THEN Len(lines) + 1 ELSE CHOOSE q \in later : \A r \in later : q <= r
  IN stop - p - 1

(* how many leading values of dataset d of group g a reader stored from
   decoded record fields or store elements *)
DecodedCount(g, d) ==
  LET F == facesCount(mMesh)
  IN CASE g.name \in {"Bed Elevation", "Water Level", "Water Level/Maximums"} -> 0
       [] g.name = "Depth" -> Min(RecordsInSlice(files.timdep.lines, d), F)
       [] g.name = "Velocity" -> 2 * Min(RecordsInSlice(files.timdep.lines, d), F)
       [] g.name = "Depth/Maximums" -> Len(files.depth.lines)
       [] g.name = "Velocity/Maximums" -> Len(files.velfp.lines)
       [] OTHER -> Len(g.datasets[d].values)

(* C10, amended: after a successful load every value a reader stored from a
   decoded record field or store element (Depth, Velocity, Depth/Maximums,
   Velocity/Maximums, binary-store groups) is missing or has |v| > 1e-8;
   Bed Elevation, Water Level and Water Level/Maximums are not covered. *)
Thm_C10_DecodedValuesNotNearZero ==
  (pc = "loaded" /\ status = "None" /\ ~mMesh.null) =>
    \A g \in 1..Len(mMesh.datasetGroups) :
      \A d \in 1..Len(mMesh.datasetGroups[g].datasets) :
        \A i \in 1..DecodedCount(mMesh.datasetGroups[g], d) :
          NotSentinel(mMesh.datasetGroups[g].datasets[d].values[i])

Wit_C10_ZeroFieldDecoded ==
  /\ pc = "loaded" /\ status = "None" /\ ~mMesh.null
  /\ Len(mMesh.datasetGroups) = 4
  /\ mMesh.datasetGroups[2].name = "Depth"
  /\ Len(mMesh.datasetGroups[2].datasets) = 1
  /\ RecordsInSlice(files.timdep.lines, 1) = 2
  /\ files.timdep.lines[3][2] = 0
  /\ mMesh.datasetGroups[2].datasets[1].values[2].nan

(* C11 *)
BadFields(file, n) == \E k \in 1..Len(file.lines) : Len(file.lines[k]) # n

GeometryBroken ==
  \/ ~files.cadpts.exists \/ BadFields(files.cadpts, 3)
  \/ ~files.fplain.exists \/ BadFields(files.fplain, 7)

TimdepMalformed ==
  files.timdep.exists /\ \E k \in 1..Len(files.timdep.lines) :
    ~IsMarker(files.timdep.lines[k]) /\ ~IsRecord(files.timdep.lines[k])

(* a maxima file with a line that has not 4 fields, or with more lines than faces *)
MaximaBroken(file, F) == file.exists /\ (BadFields(file, 4) \/ Len(file.lines) > F)

(* C11: load is all-or-nothing: a missing or malformed geometry file, or any
   optional text file that is present but malformed or has too many records,
   makes load return no mesh and report the failure, whether or not a binary
   store is present; a mesh is never returned together with a failure
   status. *)
Cex_C11_AllOrNothing ==
  pc = "loaded" =>
    /\ ( \/ GeometryBroken
         \/ TimdepMalformed
         \/ (files.timdep.exists /\ Overrun(files.timdep.lines, facesCount(BaseMesh)))
         \/ MaximaBroken(files.depth, facesCount(BaseMesh))
         \/ MaximaBroken(files.velfp, facesCount(BaseMesh))
         \/ MaximaBroken(files.veloc, facesCount(BaseMesh)) )
       => (mMesh.null /\ status # "None")
    /\ (status # "None" => mMesh.null)

(* C11, amended: a missing or malformed geometry file makes load return no
   mesh and report the failure; so does, once the binary reader has reported
   failure, a TIMDEP.OUT line that is neither a marker nor a record, a
   DEPTH.OUT or VELFP.OUT with a line that has not 4 fields or with more
   lines than faces, and, when VELFP.OUT is present, such a VELOC.OUT; a
   mesh is never returned together with a failure status. *)
Thm_C11_AllOrNothingOnFallback ==
  pc = "loaded" =>
    /\ GeometryBroken => (mMesh.null /\ status # "None")
    /\ ( /\ BinaryFailed
         /\ \/ TimdepMalformed
            \/ MaximaBroken(files.depth, facesCount(BaseMesh))
            \/ MaximaBroken(files.velfp, facesCount(BaseMesh))
            \/ (files.velfp.exists /\ MaximaBroken(files.veloc, facesCount(BaseMesh))) )
       => (mMesh.null /\ status # "None")
    /\ (status # "None" => mMesh.null)

Wit_C11_TextFailureDiscardsMesh ==
  /\ pc = "loaded" /\ BinaryFailed
  /\ files.depth.exists /\ Len(files.depth.lines) > facesCount(BaseMesh)
  /\ ~BadFields(files.depth, 4)
  /\ status = "Err_IncompatibleMesh"
  /\ mMesh.null

(* C13 *)
SlicesWithRecords(lines) ==
  Cardinality({q \in MarkerPositions(lines) :
                 q < Len(lines) /\ IsRecord(lines[q + 1])})

(* C13: a time slice is flushed into Depth, Velocity and Water Level only if
   at least one record was written for it; a marker followed directly by a
   marker or by the end of the file contributes no dataset, so each group
   holds as many datasets as there are slices with at least one record. *)
Cex_C13_EmptySlicesNotFlushed ==
  (pc = "loaded" /\ BinaryFailed /\ files.timdep.exists /\ status = "None" /\ ~mMesh.null) =>
    /\ Len(mMesh.datasetGroups) >= GroupsBeforeText + 3
    /\ \A g \in 1..3 :
         Len(mMesh.datasetGroups[GroupsBeforeText + g].datasets) =
           SlicesWithRecords(files.timdep.lines)

----------------------------------------------------------------------------
(* persist over one store: dataset groups on a mesh of two faces are        *)
(* persisted one after another, and the store is read back with             *)
(* parseHDF5Datasets on a mesh of the same faces.                           *)

MaxPersist == 3
MaxTimes == 2

PersistCells == CellList(2, <<<<<<0, 0>>, 1>>, <<<<0, 2>>, 0>>>>)
PersistMesh == createMesh(PersistCells, 2)

GroupNames == {"g", "h"}

(* 1.0, missing, a value that is not a float (3 + 2^-27), and -2.0 *)
ValueCycle == <<Num(Scale), MDAL_NAN, Num(3 * Scale + 1), Num(-2 * Scale)>>

GroupOf(name, isScalar, onVertices, n, p) ==
  LET valCount == IF isScalar THEN facesCount(PersistMesh) ELSE 2 * facesCount(PersistMesh)
  IN [name |-> name, isScalar |-> isScalar, isOnVertices |-> onVertices,
      datasets |-> [i \in 1..n |->
                      [time |-> i * Scale,
                       values |-> [j \in 1..valCount |->
                                     ValueCycle[((i * valCount + j + p) % 4) + 1]]]]]

GroupInputs ==
  {GroupOf(name, isScalar, FALSE, n, p) :
     name \in GroupNames, isScalar \in BOOLEAN, n \in 0..MaxTimes, p \in 0..1}
  \cup {GroupOf(name, TRUE, TRUE, 1, 0) : name \in GroupNames}

InitPersist ==
  /\ pc = "idle"
  /\ hdf \in {NoStore, BootstrapStore, [BootstrapStore EXCEPT !.hasResults = FALSE]}
  /\ mMesh = PersistMesh
  /\ dsGroup = NoGroup
  /\ dsGroupName = ""
  /\ result = FALSE
  /\ cells = PersistCells
  /\ elevations = <<>>
  /\ files = NoFiles
  /\ status = "None"
  /\ ub = {}
  /\ cell_size = 2

(* persist( group ) up to the name loop of appendGroup; a store that does
   not exist is created by saveNewHDF5File before appendGroup looks at the
   group *)
PersistCall ==
  /\ pc \in {"idle", "read"}
  /\ Len(hdf.groups) < MaxPersist
  /\ \E g \in GroupInputs :
       /\ dsGroup' = g
       /\ IF hdf.exists /\ (~hdf.valid \/ ~hdf.hasResults)
          THEN /\ hdf' = hdf
               /\ result' = TRUE
               /\ pc' = "idle"
               /\ dsGroupName' = dsGroupName
          ELSE /\ hdf' = IF hdf.exists THEN hdf ELSE BootstrapStore
               /\ IF g.isOnVertices
                  THEN /\ result' = TRUE
                       /\ pc' = "idle"
                       /\ dsGroupName' = dsGroupName
                  ELSE /\ result' = result
                       /\ pc' = "appendLoop"
                       /\ dsGroupName' = g.name
  /\ UNCHANGED <<cells, elevations, files, mMesh, status, ub, cell_size>>

(* one pass of while ( file.pathExists( ... + dsGroupName ) ) *)
AppendLoop ==
  /\ pc = "appendLoop"
  /\ pathExists(hdf, dsGroupName)
  /\ dsGroupName' = nextGroupName(dsGroup, 0)
  /\ UNCHANGED <<pc, cells, elevations, files, hdf, mMesh, status, ub, dsGroup, result,
                 cell_size>>

(* the loop has ended: the sub-group is created and written, persist returns false *)
AppendWrite ==
  /\ pc = "appendLoop"
  /\ ~pathExists(hdf, dsGroupName)
  /\ hdf' = [hdf EXCEPT !.groups = Append(@, writtenGroup(dsGroup, mMesh, dsGroupName))]
  /\ result' = FALSE
  /\ pc' = "idle"
  /\ UNCHANGED <<cells, elevations, files, mMesh, status, ub, dsGroup, dsGroupName,
                 cell_size>>

(* the store is read back on a mesh of the same faces *)
ReadBack ==
  /\ pc = "idle"
  /\ \E r \in {parseHDF5Datasets(PersistMesh, hdf)} :
       /\ mMesh' = r.mesh
       /\ status' = IF r.failed THEN "Err_InvalidData" ELSE "None"
  /\ pc' = "read"
  /\ UNCHANGED <<cells, elevations, files, hdf, ub, dsGroup, dsGroupName, result, cell_size>>

NextPersist == PersistCall \/ AppendLoop \/ AppendWrite \/ ReadBack

SpecPersist == InitPersist /\ [][NextPersist]_vars

(* a call that has started keeps running *)
SpecPersistFair ==
  InitPersist /\ [][NextPersist]_vars /\ WF_vars(AppendLoop) /\ WF_vars(AppendWrite)

(* C2: a face-associated group persisted into a new store and read back
   with the binary reader on a mesh of the same face count comes back with
   one dataset per persisted dataset, in the same order, with the same time
   value, and with values equal to decode(encode(original)) at every
   position. *)
Cex_C2_RoundTrip ==
  (pc = "read" /\ ~result /\ Len(hdf.groups) = 1) =>
    /\ status = "None"
    /\ Len(mMesh.datasetGroups) = 1
    /\ Len(mMesh.datasetGroups[1].datasets) = Len(dsGroup.datasets)
    /\ \A i \in 1..Len(dsGroup.datasets) :
         /\ mMesh.datasetGroups[1].datasets[i].time = dsGroup.datasets[i].time
         /\ Len(mMesh.datasetGroups[1].datasets[i].values) = Len(dsGroup.datasets[i].values)
         /\ \A j \in 1..Len(dsGroup.datasets[i].values) :
              mMesh.datasetGroups[1].datasets[i].values[j] =
                getDouble(toFlo2DDouble(dsGroup.datasets[i].values[j]))

(* C3: every persist call of a face-associated group terminates, and it
   writes its data under a sub-group name that did not exist under the
   results group before the call, leaving the existing sub-groups as they
   were. *)
Cex_C3_PersistTerminatesUnique ==
  /\ (pc = "appendLoop") ~> (pc = "idle")
  /\ [][hdf'.groups # hdf.groups =>
          /\ Len(hdf'.groups) = Len(hdf.groups) + 1
          /\ SubSeq(hdf'.groups, 1, Len(hdf.groups)) = hdf.groups
          /\ ~pathExists(hdf, hdf'.groups[Len(hdf'.groups)].name)]_vars

====
